---- MODULE Spec2Model ----
(***************************************************************************)
(* Model of financial-llm-poc (src/financial-llm-poc/src/main.rs): the     *)
(* fallback chain of FinancialAnalyzer::analyze_document, the response     *)
(* normalisation (fence stripping, strict parse, brace repair), the        *)
(* enhancer, the simulation fallback and the driver loop of main.          *)
(*                                                                         *)
(* Strings are TLA+ strings.  The text of a JSON object that serde accepts *)
(* as a FinancialDocument is written "{" members "}", where members is one *)
(* of the letters of Members: a letter stands for a well-formed list of    *)
(* the six members of the struct.  Any other text between the braces is    *)
(* not a FinancialDocument.  Confidence is held in thousandths.            *)
(***************************************************************************)
EXTENDS Integers, Sequences, FiniteSets, TLC

(* Bounds of the model. *)
MaxCore == 3
MaxKeys == 2
MaxErrors == 2
MaxDocNum == 6
MaxBatch == 2
MaxKeyLen == 2
MaxDataLen == 3
MaxTextLen == 2
MaxChoices == 2

-----------------------------------------------------------------------------
(* str primitives (std) used by the normaliser. *)

Char(s, k) == SubSeq(s, k, k)

WhiteSpace == {" ", "\n"}

StartsWith(s, p) == Len(s) >= Len(p) /\ SubSeq(s, 1, Len(p)) = p

EndsWith(s, p) == Len(s) >= Len(p) /\ SubSeq(s, Len(s) - Len(p) + 1, Len(s)) = p

Contains(s, p) == \E k \in 1..(Len(s) - Len(p) + 1) : SubSeq(s, k, k + Len(p) - 1) = p

RECURSIVE TrimStart(_)
TrimStart(s) ==
  IF Len(s) > 0 /\ Char(s, 1) \in WhiteSpace THEN TrimStart(SubSeq(s, 2, Len(s))) ELSE s

RECURSIVE TrimEnd(_)
TrimEnd(s) ==
  IF Len(s) > 0 /\ Char(s, Len(s)) \in WhiteSpace THEN TrimEnd(SubSeq(s, 1, Len(s) - 1)) ELSE s

Trim(s) == TrimEnd(TrimStart(s))

RECURSIVE TrimStartMatches(_, _)
TrimStartMatches(s, p) ==
  IF StartsWith(s, p) THEN TrimStartMatches(SubSeq(s, Len(p) + 1, Len(s)), p) ELSE s

RECURSIVE TrimEndMatches(_, _)
TrimEndMatches(s, p) ==
  IF EndsWith(s, p) THEN TrimEndMatches(SubSeq(s, 1, Len(s) - Len(p)), p) ELSE s

(* str::find / str::rfind of one character: 0 stands for None, positions are 1-based. *)
Find(s, c) ==
  IF \E k \in 1..Len(s) : Char(s, k) = c
  THEN CHOOSE k \in 1..Len(s) : Char(s, k) = c /\ \A h \in 1..(k - 1) : Char(s, h) # c
  ELSE 0

RFind(s, c) ==
  IF \E k \in 1..Len(s) : Char(s, k) = c
  THEN CHOOSE k \in 1..Len(s) : Char(s, k) = c /\ \A h \in (k + 1)..Len(s) : Char(s, h) # c
  ELSE 0

-----------------------------------------------------------------------------
(* FinancialDocument and its deserialisation. *)

None == [tag |-> "None"]
Some(v) == [tag |-> "Some", val |-> v]

FinancialDocument(dt, conf, data, errs, cats, ins) ==
  [document_type |-> dt, confidence |-> conf, extracted_data |-> data,
   validation_errors |-> errs, suggested_categories |-> cats, document_insights |-> ins]

EmptyMap == [k \in {} |-> ""]

(* "C" is a record whose confidence member is 1.5: any JSON number decodes into f32. *)
Members == {"A", "B", "C"}

(* The FinancialDocument that the member list named by a letter deserialises to. *)
MembersDoc(c) ==
  IF c = "A"
  THEN FinancialDocument("Invoice", 920,
         [k \in {"due_date", "vendor"} |->
            IF k = "due_date" THEN "February 14, 2024" ELSE "Tech Solutions Inc."],
         <<"Missing client address">>, <<"Technology">>, <<"Issued by a vendor">>)
  ELSE IF c = "B"
  THEN FinancialDocument("Bank Statement", 850,
         [k \in {"ending_balance"} |-> "$16,714.50"],
         <<"Missing vendor name", "Missing period">>, <<"Banking">>,
         <<"Looks like a statement">>)
  ELSE FinancialDocument("Receipt", 1500,
         [k \in {"store"} |-> "Office Depot"], <<>>, <<"Office Supplies">>, <<>>)

(* serde_json::from_str::<FinancialDocument>: JSON white space around the value is
   skipped, the value must be one object holding the members, and nothing but white
   space may follow it. *)
StrictParse(s) ==
  LET t == Trim(s) IN
  IF Len(t) >= 2 /\ Char(t, 1) = "{" /\ Char(t, Len(t)) = "}"
     /\ Trim(SubSeq(t, 2, Len(t) - 1)) \in Members
  THEN Some(MembersDoc(Trim(SubSeq(t, 2, Len(t) - 1))))
  ELSE None

(* The code fence marker: "^" stands for the backtick, which a TLA+ string cannot hold. *)
Fence == "^^^"

FenceJson == Fence \o "json"

(* CleanJson, were the fence cut off by length: the first seven characters and the
   last three of a content that starts with a fence. *)
CleanJson_fixed_cut(analysis_json) ==
  LET t == Trim(analysis_json) IN
  IF StartsWith(t, Fence)
  THEN Trim(SubSeq(t, Len(FenceJson) + 1, Len(t) - Len(Fence)))
  ELSE t

CleanJson(analysis_json) ==
  Trim(TrimEndMatches(TrimStartMatches(TrimStartMatches(Trim(analysis_json),
          FenceJson), Fence), Fence))

(* extract_json_from_text, were the end the first closing brace (find for rfind). *)
extract_json_from_text_first_close(text) ==
  LET start == Find(text, "{")
      end == Find(text, "}")
  IN IF start # 0 /\ end # 0 /\ end > start THEN Some(SubSeq(text, start, end)) ELSE None

extract_json_from_text(text) ==
  LET start == Find(text, "{")
      end == RFind(text, "}")
  IN IF start # 0 /\ end # 0 /\ end > start THEN Some(SubSeq(text, start, end)) ELSE None

-----------------------------------------------------------------------------
(* FinancialAnalyzer::enhance_analysis. *)

Get(map, key) == IF key \in DOMAIN map THEN Some(map[key]) ELSE None

(* A variant that formats the label with an empty value when the key is absent. *)
InsightIfPresent_defaulting(a, key, label) ==
  <<label \o (IF Get(a.extracted_data, key).tag = "Some"
              THEN Get(a.extracted_data, key).val ELSE "")>>

(* format!("<label>{}", value) when the key is present, nothing otherwise. *)
InsightIfPresent(a, key, label) ==
  IF Get(a.extracted_data, key).tag = "Some"
  THEN <<label \o Get(a.extracted_data, key).val>>
  ELSE <<>>

(* A variant that forgets the client half of the test. *)
KeepError_vendor_only(error) == ~Contains(error, "vendor")

KeepError(error) == ~Contains(error, "vendor") /\ ~Contains(error, "client")

TypeInsights(a) ==
  CASE a.document_type \in {"Bank Statement", "Bank"} ->
         InsightIfPresent(a, "ending_balance", "Ending balance: ")
           \o InsightIfPresent(a, "period", "Statement period: ")
    [] a.document_type = "Invoice" ->
         InsightIfPresent(a, "due_date", "Payment due: ")
           \o InsightIfPresent(a, "tax_amount", "Tax amount: ")
    [] a.document_type = "Receipt" ->
         InsightIfPresent(a, "store", "Purchase from: ")
           \o InsightIfPresent(a, "payment_method", "Paid with: ")
    [] OTHER -> <<>>

(* A variant whose upper threshold is inclusive. *)
ConfidenceInsight_inclusive(a) ==
  IF a.confidence >= 900 THEN <<"High confidence analysis">>
  ELSE IF a.confidence > 700 THEN <<"Moderate confidence analysis">>
  ELSE <<>>

ConfidenceInsight(a) ==
  IF a.confidence > 900 THEN <<"High confidence analysis">>
  ELSE IF a.confidence > 700 THEN <<"Moderate confidence analysis">>
  ELSE <<>>

(* A variant that drops the vendor and client errors whatever the type. *)
enhance_analysis_filtering_all(a) ==
  [a EXCEPT
     !.validation_errors = SelectSeq(a.validation_errors, KeepError),
     !.document_insights = TypeInsights(a) \o ConfidenceInsight(a)]

(* A variant that writes its insights only where the record came with none. *)
enhance_analysis_keeping(a) ==
  [a EXCEPT
     !.validation_errors =
        IF a.document_type \in {"Bank Statement", "Bank"}
        THEN SelectSeq(a.validation_errors, KeepError)
        ELSE a.validation_errors,
     !.document_insights =
        IF a.document_insights = <<>> THEN TypeInsights(a) \o ConfidenceInsight(a) ELSE @]

(* A variant that adds the new insights to those the record already holds. *)
enhance_analysis_appending(a) ==
  [a EXCEPT
     !.validation_errors =
        IF a.document_type \in {"Bank Statement", "Bank"}
        THEN SelectSeq(a.validation_errors, KeepError)
        ELSE a.validation_errors,
     !.document_insights = a.document_insights \o TypeInsights(a) \o ConfidenceInsight(a)]

enhance_analysis(a) ==
  [a EXCEPT
     !.validation_errors =
        IF a.document_type \in {"Bank Statement", "Bank"}
        THEN SelectSeq(a.validation_errors, KeepError)
        ELSE a.validation_errors,
     !.document_insights = TypeInsights(a) \o ConfidenceInsight(a)]

-----------------------------------------------------------------------------
(* intelligent_simulation: the record it builds and prints for doc_num. *)

SimInvoice ==
  FinancialDocument("Invoice", 960,
    [k \in {"date", "due_date", "total_amount", "tax_amount", "vendor", "client",
            "invoice_number", "payment_terms"} |->
       CASE k = "date" -> "January 15, 2024"
         [] k = "due_date" -> "February 14, 2024"
         [] k = "total_amount" -> "$2,750.00"
         [] k = "tax_amount" -> "$250.00"
         [] k = "vendor" -> "Tech Solutions Inc."
         [] k = "client" -> "ABC Corporation"
         [] k = "invoice_number" -> "INV-2024-001"
         [] OTHER -> "Net 30"],
    <<>>, <<"Technology", "Professional Services">>,
    <<"Payment due: February 14, 2024", "Tax amount: $250.00", "High confidence analysis">>)

SimReceipt ==
  FinancialDocument("Receipt", 940,
    [k \in {"date", "total_amount", "tax_amount", "store", "receipt_number",
            "payment_method"} |->
       CASE k = "date" -> "2024-01-20"
         [] k = "total_amount" -> "$53.43"
         [] k = "tax_amount" -> "$3.96"
         [] k = "store" -> "Office Supply World"
         [] k = "receipt_number" -> "RCPT-789123"
         [] OTHER -> "Credit Card"],
    <<"Missing individual item prices">>, <<"Office Supplies", "Business Expenses">>,
    <<"Purchase from: Office Supply World", "Paid with: Credit Card",
      "High confidence analysis">>)

(* The bank statement's record, were it written with a vendor error. *)
SimBankStatement_vendor_error ==
  FinancialDocument("Bank Statement", 950,
    [k \in {"period", "account_number", "beginning_balance", "ending_balance"} |->
       CASE k = "period" -> "Jan 1-31, 2024"
         [] k = "account_number" -> "****1234"
         [] k = "beginning_balance" -> "$12,500.00"
         [] OTHER -> "$16,714.50"],
    <<"Missing vendor name">>, <<"Banking", "Financial Records">>,
    <<"Ending balance: $16,714.50", "Statement period: Jan 1-31, 2024",
      "High confidence analysis">>)

SimBankStatement ==
  FinancialDocument("Bank Statement", 950,
    [k \in {"period", "account_number", "beginning_balance", "ending_balance"} |->
       CASE k = "period" -> "Jan 1-31, 2024"
         [] k = "account_number" -> "****1234"
         [] k = "beginning_balance" -> "$12,500.00"
         [] OTHER -> "$16,714.50"],
    <<>>, <<"Banking", "Financial Records">>,
    <<"Ending balance: $16,714.50", "Statement period: Jan 1-31, 2024",
      "High confidence analysis">>)

SimTaxForm ==
  FinancialDocument("Tax Form W-2", 970,
    [k \in {"year", "employee", "employer", "wages", "federal_tax_withheld",
            "employer_ein"} |->
       CASE k = "year" -> "2023"
         [] k = "employee" -> "John Smith"
         [] k = "employer" -> "Tech Solutions Inc."
         [] k = "wages" -> "$85,000.00"
         [] k = "federal_tax_withheld" -> "$15,300.00"
         [] OTHER -> "12-3456789"],
    <<>>, <<"Tax Documents", "Income Records">>,
    <<"Tax year: 2023", "Wages: $85,000.00", "High confidence analysis">>)

SimUnknown ==
  FinancialDocument("Unknown", 500, EmptyMap, <<"Cannot analyze document">>, <<>>, <<>>)

(* intelligent_simulation, were its arms numbered from 1. *)
intelligent_simulation_one_based(doc_num, doc_text) ==
  CASE doc_num = 1 -> SimInvoice
    [] doc_num = 2 -> SimReceipt
    [] doc_num = 3 -> SimBankStatement
    [] doc_num = 4 -> SimTaxForm
    [] OTHER -> SimUnknown

(* intelligent_simulation, were an index past the last arm to start over. *)
intelligent_simulation_wrapping(doc_num, doc_text) ==
  CASE doc_num % 4 = 0 -> SimInvoice
    [] doc_num % 4 = 1 -> SimReceipt
    [] doc_num % 4 = 2 -> SimBankStatement
    [] OTHER -> SimTaxForm

intelligent_simulation(doc_num, doc_text) ==
  CASE doc_num = 0 -> SimInvoice
    [] doc_num = 1 -> SimReceipt
    [] doc_num = 2 -> SimBankStatement
    [] doc_num = 3 -> SimTaxForm
    [] OTHER -> SimUnknown

-----------------------------------------------------------------------------
(* The program's constants. *)

(* main: test_documents (0-based in the code, 1-based here). *)
test_documents ==
  <<"INVOICE\nFrom: Tech Solutions Inc.\nTo: ABC Corporation\nInvoice #: INV-2024-001\nDate: January 15, 2024\nDue Date: February 14, 2024\nTotal: $2,750.00\nTax: $250.00\nDescription: Software Development Services\nPayment Terms: Net 30",
    "RECEIPT\nStore: Office Supply World\nDate: 2024-01-20\nReceipt #: RCPT-789123\nTotal: $53.43\nTax: $3.96\nItems: Printer Paper, Pens, Stapler\nPayment Method: Credit Card",
    "BANK STATEMENT\nAccount: ****1234\nStatement Period: Jan 1-31, 2024\nBeginning Balance: $12,500.00\nEnding Balance: $16,714.50\nTransactions: Various deposits and withdrawals",
    "TAX FORM W-2\nEmployee: John Smith\nEmployer: Tech Solutions Inc.\nEmployer EIN: 12-3456789\nWages: $85,000.00\nFederal Tax Withheld: $15,300.00\nYear: 2023\nSocial Security Wages: $85,000.00">>

(* analyze_document: models, in the order of the vec!. *)
models == <<"meta-llama/llama-3.2-3b-instruct:free", "google/gemini-2.0-flash-exp:free">>

AllModelsFailed == "All models failed. Using enhanced simulation."

(* The template of build_smart_analysis_prompt, its fixed middle part shortened. *)
build_smart_analysis_prompt(doc_text) ==
  "Analyze this financial document and return JSON. [...] DOCUMENT:\n" \o doc_text
    \o "\n\nReturn ONLY the JSON object."

OpenRouterRequest(model, prompt_text) ==
  [model |-> model,
   messages |-> <<[role |-> "system",
                   content |-> "You are a financial document analysis expert. Analyze the document type and extract relevant fields accordingly. Return ONLY valid JSON."],
                  [role |-> "user", content |-> prompt_text]>>]

(* main: the test of the key that decides between the analyzer and simulation mode. *)
(* The test, were a key of 20 characters to pass it. *)
KeyUsable_inclusive(key) == StartsWith(key, "sk-or-") /\ Len(key) >= 20

KeyUsable(key) == StartsWith(key, "sk-or-") /\ Len(key) > 20

-----------------------------------------------------------------------------
(* What a backend call can come back with (the environment of the model). *)

(* OPENROUTER_API_KEY as main may find it: unset, too short, 20 characters long, long
   with another prefix, usable. *)
ApiKeys ==
  {"no-key-found", "sk-or-v1-short", "sk-or-v1-0123456789a", "sk-proj-0123456789abcdefgh",
   "sk-or-v1-0123456789abcdef"}

(* Message contents a model may return in a choice. *)
ModelContents ==
  {"{A}", "{B}", "{C}", Fence \o "json\n{A}\n" \o Fence, "Here is the result: {B} Thanks!",
   "I cannot analyze this.", "{\"document_type\": 7}"}

RECURSIVE SeqsUpTo(_, _)
SeqsUpTo(S, n) ==
  IF n = 0 THEN {<<>>}
  ELSE LET shorter == SeqsUpTo(S, n - 1)
       IN shorter \cup {Append(q, x) : q \in {r \in shorter : Len(r) = n - 1}, x \in S}

(* OpenRouterResponse as decoded: both members are Option. *)
Envelopes ==
  [error : {None, Some("rate limited")},
   choices : {None} \cup {Some(cs) : cs \in SeqsUpTo(ModelContents, MaxChoices)}]

(* A response body: unreadable (into_string fails), text that does not decode as the
   envelope, or text that decodes. *)
ResponseBodies ==
  {[tag |-> "Unreadable"], [tag |-> "Undecodable"]}
    \cup {[tag |-> "Envelope", envelope |-> e] : e \in Envelopes}

(* The Result of send_string: Err for a transport failure (a timeout included) and for
   a status of 400 or more, Ok otherwise. *)
Responses ==
  {[tag |-> "Err", error |-> "Transport"]}
    \cup {[tag |-> "Err", error |-> "Status", status |-> st] : st \in {404, 500}}
    \cup {[tag |-> "Ok", status |-> 204, body |-> [tag |-> "Undecodable"]]}
    \cup {[tag |-> "Ok", status |-> 200, body |-> b] : b \in ResponseBodies}

-----------------------------------------------------------------------------
(* analyze_document: what one iteration of the loop does with a response. *)

Ok(v) == [tag |-> "Ok", val |-> v]
Err(e) == [tag |-> "Err", error |-> e]

(* What an iteration comes to: the function returns, or the loop goes on to the next
   model.  outcome names how the iteration ended, calls lists the calls it made of the
   parser, of the repair and of the enhancer, in order. *)
Return(res, outcome, made) ==
  [tag |-> "Return", result |-> res, outcome |-> outcome, calls |-> made]

Continue(reason, made) == [tag |-> "Continue", outcome |-> reason, calls |-> made]

(* ProcessContent, were the repaired analysis dropped and the loop continued. *)
ProcessContent_repair_dropped(analysis_json) ==
  LET clean_json == CleanJson(analysis_json)
      strict == StrictParse(clean_json)
      fixed_json == extract_json_from_text(clean_json)
  IN IF strict.tag = "Some"
     THEN Return(Ok(enhance_analysis(strict.val)), "parsed",
                 <<"from_str", "enhance_analysis">>)
     ELSE IF fixed_json.tag = "Some"
          THEN Continue("JSON parse error",
                        <<"from_str", "extract_json_from_text", "from_str">>)
          ELSE Continue("JSON parse error", <<"from_str", "extract_json_from_text">>)

(* ProcessContent, were the repaired analysis returned as parsed, without the call of
   enhance_analysis. *)
ProcessContent_repair_unenhanced(analysis_json) ==
  LET clean_json == CleanJson(analysis_json)
      strict == StrictParse(clean_json)
      fixed_json == extract_json_from_text(clean_json)
  IN IF strict.tag = "Some"
     THEN Return(Ok(enhance_analysis(strict.val)), "parsed",
                 <<"from_str", "enhance_analysis">>)
     ELSE IF fixed_json.tag = "Some"
          THEN IF StrictParse(fixed_json.val).tag = "Some"
               THEN Return(Ok(StrictParse(fixed_json.val).val), "repaired",
                           <<"from_str", "extract_json_from_text", "from_str">>)
               ELSE Continue("JSON parse error",
                             <<"from_str", "extract_json_from_text", "from_str">>)
          ELSE Continue("JSON parse error", <<"from_str", "extract_json_from_text">>)

(* Lines 109-140: the content of the first choice. *)
ProcessContent(analysis_json) ==
  LET clean_json == CleanJson(analysis_json)
      strict == StrictParse(clean_json)
      fixed_json == extract_json_from_text(clean_json)
  IN IF strict.tag = "Some"
     THEN Return(Ok(enhance_analysis(strict.val)), "parsed",
                 <<"from_str", "enhance_analysis">>)
     ELSE IF fixed_json.tag = "Some"
          THEN IF StrictParse(fixed_json.val).tag = "Some"
               THEN Return(Ok(enhance_analysis(StrictParse(fixed_json.val).val)),
                           "repaired",
                           <<"from_str", "extract_json_from_text", "from_str",
                             "enhance_analysis">>)
               ELSE Continue("JSON parse error",
                             <<"from_str", "extract_json_from_text", "from_str">>)
          ELSE Continue("JSON parse error", <<"from_str", "extract_json_from_text">>)

(* Lines 99-142: a response of status 200. *)
(* A variant that looks at choices before it looks at error. *)
ProcessBody_choices_first(body) ==
  CASE body.tag = "Unreadable" ->
         Return(Err("response body unreadable"), "response body unreadable", <<>>)
    [] body.tag = "Undecodable" ->
         Return(Err("response envelope undecodable"), "response envelope undecodable", <<>>)
    [] OTHER ->
         IF body.envelope.choices.tag = "Some" /\ Len(body.envelope.choices.val) > 0
         THEN ProcessContent(body.envelope.choices.val[1])
         ELSE IF body.envelope.error.tag = "Some" THEN Continue("Model error", <<>>)
              ELSE Continue("no choice", <<>>)

ProcessBody(body) ==
  CASE body.tag = "Unreadable" ->
         Return(Err("response body unreadable"), "response body unreadable", <<>>)
    [] body.tag = "Undecodable" ->
         Return(Err("response envelope undecodable"), "response envelope undecodable", <<>>)
    [] OTHER ->
         IF body.envelope.error.tag = "Some" THEN Continue("Model error", <<>>)
         ELSE IF body.envelope.choices.tag = "Some" /\ Len(body.envelope.choices.val) > 0
              THEN ProcessContent(body.envelope.choices.val[1])
              ELSE Continue("no choice", <<>>)

(* Line 109: the content the iteration reads, when it gets that far. *)
ContentRead(response) ==
  IF /\ response.tag = "Ok" /\ response.status = 200
     /\ response.body.tag = "Envelope"
     /\ response.body.envelope.error.tag = "None"
     /\ response.body.envelope.choices.tag = "Some"
     /\ Len(response.body.envelope.choices.val) > 0
  THEN Some(response.body.envelope.choices.val[1])
  ELSE None

(* What the envelope of a response held, read or not: whether its error member was
   there, and the content of its first choice. *)
ErrorReported(response) ==
  /\ response.tag = "Ok" /\ response.status = 200
  /\ response.body.tag = "Envelope"
  /\ response.body.envelope.error.tag = "Some"

ContentOffered(response) ==
  IF /\ response.tag = "Ok" /\ response.status = 200
     /\ response.body.tag = "Envelope"
     /\ response.body.envelope.choices.tag = "Some"
     /\ Len(response.body.envelope.choices.val) > 0
  THEN Some(response.body.envelope.choices.val[1])
  ELSE None

(* Lines 94-150: the match on the Result of send_string. *)
ProcessResponse(response) ==
  IF response.tag = "Ok"
  THEN IF response.status = 200
       THEN ProcessBody(response.body)
       ELSE Continue("status not 200", <<>>)
  ELSE Continue(IF response.error = "Transport" THEN "transport failure" ELSE "HTTP failure",
                <<>>)

(* Line 65, for model in models: the model of the k-th iteration, and the iteration
   that follows the k-th after a continue. *)
(* The loop, were it to run through models from the end. *)
LoopModel_reversed(k) == models[Len(models) + 1 - k]

(* The loop, were a continue to try the same model again. *)
AfterContinue_retry(k) == k

LoopModel(k) == models[k]

AfterContinue(k) == k + 1

-----------------------------------------------------------------------------
(* State. *)

VARIABLES
  api_key,     \* main: the key read from the environment
  mainPc,      \* main: "start", "loop" (analyzer mode), "wait", "simulation", "done",
               \* or "harness" when analyze_document is called on its own
  i,           \* main: index of the document at hand, 0-based as in the code
  presented,   \* main: what was printed, one record per document
  pc,          \* analyze_document: "idle", "loop", "await", "ret"
  text,        \* analyze_document: the parameter
  prompt,      \* analyze_document: the prompt built from text
  m,           \* analyze_document: position in models of the loop, 1-based
  inFlight,    \* requests sent and not yet answered, by position in models
  sent,        \* the requests sent during the current call, in order
  attempts,    \* the outcome of each iteration of the current call, in order
  calls,       \* calls of the parser, the repair and the enhancer in the current call
  result,      \* analyze_document: the value returned
  nz,          \* the normaliser run on its own: the content and what became of it
  en,          \* the enhancer run on its own: the record and what became of it
  sm,          \* the simulation run on its own: the index, the text and the record
  sa,          \* the structured analyzer: the reply at hand and what was returned
  batch,       \* analyze_document called on several documents at once: one record per call
  cipher,      \* a cipher of the encryption tutorial: its key, its input and its outputs
  reg          \* the Arc + Mutex tutorial: the tasks, the repository, the email service

vars == <<api_key, mainPc, i, presented, pc, text, prompt, m, inFlight, sent, attempts,
          calls, result, nz, en, sm, sa, batch, cipher, reg>>

otherVars == <<batch, cipher, reg>>

pureVars == <<en, sm, sa, otherVars>>

mainVars == <<api_key, mainPc, i, presented>>

NoResult == [tag |-> "None"]

CallIdle ==
  /\ pc = "idle" /\ text = "" /\ prompt = "" /\ m = 0 /\ inFlight = {}
  /\ sent = <<>> /\ attempts = <<>> /\ calls = <<>> /\ result = NoResult

NzIdle == [pre |-> "", core |-> "", post |-> "", plain |-> NoResult, wrapped |-> NoResult]

EnIdle == [input |-> NoResult, once |-> NoResult, twice |-> NoResult]

SmIdle == [doc_num |-> 0, doc_text |-> "", shown |-> NoResult]

SaIdle == [op |-> "none", reply |-> NoResult, called |-> NoResult, returned |-> NoResult]

BatchIdle == <<>>

CipherIdle == [kind |-> "none"]

RegIdle == [tasks |-> <<>>, users |-> {}, users_lock |-> None, sent_emails |-> <<>>,
            emails_lock |-> None, listed |-> NoResult]

OtherIdle == batch = BatchIdle /\ cipher = CipherIdle /\ reg = RegIdle

PureIdle == en = EnIdle /\ sm = SmIdle /\ sa = SaIdle /\ OtherIdle

Init ==
  /\ api_key \in ApiKeys
  /\ mainPc = "start" /\ i = 0 /\ presented = <<>>
  /\ CallIdle
  /\ nz = NzIdle
  /\ PureIdle

-----------------------------------------------------------------------------
(* analyze_document. *)

(* Entry (line 58): the prompt is built from the text, whatever the text is. *)
Enter(doc_text) ==
  /\ text' = doc_text
  /\ prompt' = build_smart_analysis_prompt(doc_text)
  /\ m' = 1
  /\ pc' = "loop"
  /\ inFlight' = {} /\ sent' = <<>> /\ attempts' = <<>> /\ calls' = <<>>
  /\ result' = NoResult

(* Lines 65-92: the next model's request is built and sent. *)
SendRequest ==
  /\ pc = "loop" /\ m <= Len(models)
  /\ sent' = Append(sent, OpenRouterRequest(LoopModel(m), prompt))
  /\ inFlight' = inFlight \cup {m}
  /\ pc' = "await"
  /\ UNCHANGED <<pureVars, nz, mainVars, text, prompt, m, attempts, calls, result>>

(* Lines 94-150: send_string has returned; the iteration runs to its continue or to a
   return. *)
HandleResponse ==
  /\ pc = "await"
  /\ \E response \in Responses :
       LET step == ProcessResponse(response) IN
       /\ inFlight' = inFlight \ {m}
       /\ attempts' = Append(attempts, [model |-> LoopModel(m),
                                        reported |-> ErrorReported(response),
                                        offered |-> ContentOffered(response),
                                        content |-> ContentRead(response),
                                        outcome |-> step.outcome])
       /\ calls' = calls \o step.calls
       /\ IF step.tag = "Return"
          THEN /\ result' = step.result
               /\ pc' = "ret"
               /\ m' = m
          ELSE /\ result' = result
               /\ pc' = "loop"
               /\ m' = AfterContinue(m)
  /\ UNCHANGED <<pureVars, nz, mainVars, text, prompt, sent>>

(* Exhausted, were the error the reason of the last failure. *)
Exhausted_last_reason ==
  /\ pc = "loop" /\ m > Len(models)
  /\ result' = Err(attempts[Len(attempts)].outcome)
  /\ pc' = "ret"
  /\ UNCHANGED <<pureVars, nz, mainVars, text, prompt, m, inFlight, sent, attempts, calls>>

(* Line 153: the loop has run through models. *)
Exhausted ==
  /\ pc = "loop" /\ m > Len(models)
  /\ result' = Err(AllModelsFailed)
  /\ pc' = "ret"
  /\ UNCHANGED <<pureVars, nz, mainVars, text, prompt, m, inFlight, sent, attempts, calls>>

-----------------------------------------------------------------------------
(* main. *)

Presented(index, source, analysis) ==
  [index |-> index, source |-> source, analysis |-> analysis]

(* Line 288: with a usable key the analyzer is built, otherwise simulation mode. *)
CheckKey ==
  /\ mainPc = "start"
  /\ mainPc' = IF KeyUsable(api_key) THEN "loop" ELSE "simulation"
  /\ UNCHANGED <<pureVars, nz, api_key, i, presented, pc, text, prompt, m, inFlight, sent, attempts,
                 calls, result>>

(* Line 299: analyzer.analyze_document(doc_text). *)
CallAnalyze ==
  /\ mainPc = "loop" /\ i < Len(test_documents)
  /\ Enter(test_documents[i + 1])
  /\ mainPc' = "wait"
  /\ UNCHANGED <<pureVars, nz, api_key, i, presented>>

(* Lines 300-307: Ok(analysis) is printed. *)
PresentAnalysis ==
  /\ mainPc = "wait" /\ pc = "ret" /\ result.tag = "Ok"
  /\ presented' = Append(presented, Presented(i, "analysis", result.val))
  /\ i' = i + 1
  /\ mainPc' = "loop"
  /\ pc' = "idle"
  /\ UNCHANGED <<pureVars, nz, api_key, text, prompt, m, inFlight, sent, attempts, calls, result>>

(* Lines 308-312: Err(e): the simulation of the same index is printed. *)
PresentSimulation ==
  /\ mainPc = "wait" /\ pc = "ret" /\ result.tag = "Err"
  /\ presented' = Append(presented,
                         Presented(i, "simulation", intelligent_simulation(i, text)))
  /\ i' = i + 1
  /\ mainPc' = "loop"
  /\ pc' = "idle"
  /\ UNCHANGED <<pureVars, nz, api_key, text, prompt, m, inFlight, sent, attempts, calls, result>>

(* Lines 323-326: simulation mode. *)
SimulateOnly ==
  /\ mainPc = "simulation" /\ i < Len(test_documents)
  /\ presented' = Append(presented,
                         Presented(i, "simulation",
                                   intelligent_simulation(i, test_documents[i + 1])))
  /\ i' = i + 1
  /\ UNCHANGED <<pureVars, nz, api_key, mainPc, pc, text, prompt, m, inFlight, sent, attempts,
                 calls, result>>

(* Lines 329-333: either loop is over. *)
Finish ==
  /\ mainPc \in {"loop", "simulation"} /\ i = Len(test_documents)
  /\ mainPc' = "done"
  /\ UNCHANGED <<pureVars, nz, api_key, i, presented, pc, text, prompt, m, inFlight, sent, attempts,
                 calls, result>>

Next ==
  \/ CheckKey
  \/ CallAnalyze
  \/ SendRequest
  \/ HandleResponse
  \/ Exhausted
  \/ PresentAnalysis
  \/ PresentSimulation
  \/ SimulateOnly
  \/ Finish

Spec == Init /\ [][Next]_vars

-----------------------------------------------------------------------------
(* analyze_document called on its own, on a text of the caller's choosing. *)

HarnessTexts == {"", " ", test_documents[3]}

InitAnalyze ==
  /\ api_key = "sk-or-v1-0123456789abcdef"
  /\ mainPc = "harness" /\ i = 0 /\ presented = <<>>
  /\ CallIdle
  /\ nz = NzIdle
  /\ PureIdle

HarnessCall ==
  /\ mainPc = "harness" /\ pc \in {"idle", "ret"}
  /\ \E doc_text \in HarnessTexts : Enter(doc_text)
  /\ UNCHANGED <<pureVars, nz, mainVars>>

NextAnalyze ==
  \/ HarnessCall
  \/ SendRequest
  \/ HandleResponse
  \/ Exhausted

SpecAnalyze == InitAnalyze /\ [][NextAnalyze]_vars

(* The same, with what makes the call go on: the code between two network calls
   runs to its end (nothing in it waits), and send_string returns, with a response or
   with a failure, because of .timeout(Duration::from_secs(30)) (line 91). *)
LoopRuns == WF_vars(SendRequest) /\ WF_vars(Exhausted)

(* send_string without the timeout: nothing says that it returns. *)
CallsReturn_no_timeout == TRUE

CallsReturn == WF_vars(HandleResponse)

SpecAnalyzeLive == InitAnalyze /\ [][NextAnalyze]_vars /\ LoopRuns /\ CallsReturn

-----------------------------------------------------------------------------
(* The normaliser (lines 109-140) run on its own: on a text, and on the same text
   with something before and after it. *)

CoreAlphabet == {"{", "}", "A", "B", " ", "p"}

RECURSIVE StringsUpTo(_, _)
StringsUpTo(S, n) ==
  IF n = 0 THEN {""}
  ELSE LET shorter == StringsUpTo(S, n - 1)
       IN shorter \cup {q \o x : q \in {r \in shorter : Len(r) = n - 1}, x \in S}

Cores == StringsUpTo(CoreAlphabet, MaxCore)

FencePrefixes ==
  {Fence, FenceJson, FenceJson \o "\n", " " \o FenceJson \o " \n", "\n" \o Fence \o " "}

FenceSuffixes == {Fence, "\n" \o Fence, "\n" \o Fence \o " \n"}

ProsePrefixes == {"", "Here is the result: ", "As {requested}: ", "Done} ", FenceJson \o "js "}

ProseSuffixes == {"", " Thanks!", " {end", " (see {notes})"}

(* What is put before and after a text: a fence on both sides, or prose. *)
Wraps == (FencePrefixes \X FenceSuffixes) \cup (ProsePrefixes \X ProseSuffixes)

(* What the normaliser makes of a content, with the values it computes on the way. *)
NormaliserRun(content) ==
  [content |-> content,
   clean_json |-> CleanJson(content),
   strict |-> StrictParse(CleanJson(content)),
   fixed_json |-> IF StrictParse(CleanJson(content)).tag = "None"
                  THEN extract_json_from_text(CleanJson(content))
                  ELSE None,
   step |-> ProcessContent(content)]

InitNormalize ==
  /\ api_key = "no-key-found"
  /\ mainPc = "normaliser" /\ i = 0 /\ presented = <<>>
  /\ CallIdle
  /\ \E wrap \in Wraps, core \in Cores :
       nz = [pre |-> wrap[1], core |-> core, post |-> wrap[2],
             plain |-> NoResult, wrapped |-> NoResult]
  /\ PureIdle

NormalizePlain ==
  /\ mainPc = "normaliser" /\ nz.plain = NoResult
  /\ nz' = [nz EXCEPT !.plain = NormaliserRun(nz.core)]
  /\ UNCHANGED <<pureVars, mainVars, pc, text, prompt, m, inFlight, sent, attempts, calls, result>>

NormalizeWrapped ==
  /\ mainPc = "normaliser" /\ nz.wrapped = NoResult
  /\ nz' = [nz EXCEPT !.wrapped = NormaliserRun(nz.pre \o nz.core \o nz.post)]
  /\ UNCHANGED <<pureVars, mainVars, pc, text, prompt, m, inFlight, sent, attempts, calls, result>>

NextNormalize ==
  \/ NormalizePlain
  \/ NormalizeWrapped

SpecNormalize == InitNormalize /\ [][NextNormalize]_vars

-----------------------------------------------------------------------------
(* enhance_analysis applied to a record, and applied again to what it returned. The
   records are those a model can answer with: any type string, any confidence, any of
   the keys the enhancer looks up, any validation errors, any insights of its own. *)

EnhanceTypes ==
  {"Bank Statement", "Bank", "Invoice", "Receipt",
   "bank statement", "INVOICE", " Receipt ", "Tax Form W-2"}

(* In thousandths, as everywhere: the two thresholds and the values next to them. *)
EnhanceConfidences == {700, 701, 900, 901}

InsightKeys == {"ending_balance", "period", "due_date", "tax_amount", "store", "payment_method"}

KeyValue(key) ==
  CASE key = "ending_balance" -> "$16,714.50"
    [] key = "period" -> "January 2024"
    [] key = "due_date" -> "February 14, 2024"
    [] key = "tax_amount" -> "$440.00"
    [] key = "store" -> "Office Depot"
    [] OTHER -> "VISA ****1234"

EnhanceData ==
  {[k \in S |-> KeyValue(k)] : S \in {T \in SUBSET InsightKeys : Cardinality(T) <= MaxKeys}}

ErrorTexts ==
  {"Missing vendor name", "No client listed", "Vendor Name Missing", "Missing period"}

EnhanceErrors == SeqsUpTo(ErrorTexts, MaxErrors)

EnhanceInsights == {<<>>, <<"High confidence analysis">>}

EnhanceCategories == {<<>>, <<"Technology">>}

(* The records of the simulation, which are FinancialDocuments too. *)
SimulationRecords == {intelligent_simulation(doc_num, "") : doc_num \in 0..MaxDocNum}

InitEnhance ==
  /\ api_key = "no-key-found"
  /\ mainPc = "enhancer" /\ i = 0 /\ presented = <<>>
  /\ CallIdle
  /\ nz = NzIdle /\ sm = SmIdle /\ sa = SaIdle
  /\ OtherIdle
  /\ \/ \E dt \in EnhanceTypes, conf \in EnhanceConfidences, data \in EnhanceData,
           errs \in EnhanceErrors, cats \in EnhanceCategories, ins \in EnhanceInsights :
          en = [input |-> Some(FinancialDocument(dt, conf, data, errs, cats, ins)),
                once |-> NoResult, twice |-> NoResult]
     \/ \E a \in SimulationRecords :
          en = [input |-> Some(a), once |-> NoResult, twice |-> NoResult]

EnhanceOnce ==
  /\ mainPc = "enhancer" /\ en.once = NoResult
  /\ en' = [en EXCEPT !.once = Some(enhance_analysis(en.input.val))]
  /\ UNCHANGED <<otherVars, nz, sm, sa, mainVars, pc, text, prompt, m, inFlight, sent, attempts, calls,
                 result>>

EnhanceAgain ==
  /\ mainPc = "enhancer" /\ en.once # NoResult /\ en.twice = NoResult
  /\ en' = [en EXCEPT !.twice = Some(enhance_analysis(en.once.val))]
  /\ UNCHANGED <<otherVars, nz, sm, sa, mainVars, pc, text, prompt, m, inFlight, sent, attempts, calls,
                 result>>

NextEnhance ==
  \/ EnhanceOnce
  \/ EnhanceAgain

SpecEnhance == InitEnhance /\ [][NextEnhance]_vars

-----------------------------------------------------------------------------
(* intelligent_simulation called on its own, on any index and any text. *)

SimulationTexts ==
  {test_documents[k] : k \in 1..Len(test_documents)} \cup HarnessTexts \cup ModelContents

InitSimulate ==
  /\ api_key = "no-key-found"
  /\ mainPc = "simulator" /\ i = 0 /\ presented = <<>>
  /\ CallIdle
  /\ nz = NzIdle /\ en = EnIdle /\ sa = SaIdle
  /\ OtherIdle
  /\ \E doc_num \in 0..MaxDocNum, doc_text \in SimulationTexts :
       sm = [doc_num |-> doc_num, doc_text |-> doc_text, shown |-> NoResult]

Simulate ==
  /\ mainPc = "simulator" /\ sm.shown = NoResult
  /\ sm' = [sm EXCEPT !.shown = Some(intelligent_simulation(sm.doc_num, sm.doc_text))]
  /\ UNCHANGED <<otherVars, nz, en, sa, mainVars, pc, text, prompt, m, inFlight, sent, attempts, calls,
                 result>>

NextSimulate == Simulate

SpecSimulate == InitSimulate /\ [][NextSimulate]_vars

-----------------------------------------------------------------------------
(* The structured analyzer (financial_analyzer.rs): validate_document and the
   call_llm it rests on. *)

(* ValidationResult (document_types.rs), overall_score in thousandths. *)
ValidationResult(valid, missing, quality, compliance, score) ==
  [is_valid |-> valid, missing_fields |-> missing, data_quality_issues |-> quality,
   compliance_issues |-> compliance, overall_score |-> score]

ValidationResults ==
  {ValidationResult(valid, missing, quality, compliance, score) :
     valid \in BOOLEAN,
     missing \in {<<>>, <<"due_date">>},
     quality \in {<<>>, <<"total does not match line items">>},
     compliance \in {<<>>, <<"tax id missing">>},
     score \in {400, 950}}

(* Message contents: a JSON object with the members of ValidationResult, a JSON
   object that lacks one of them, or text that is not JSON. *)
ValidationContents ==
  {[tag |-> "Json", val |-> v] : v \in ValidationResults}
    \cup {[tag |-> "JsonMissingMember"], [tag |-> "Text"]}

(* serde_json::from_str::<ValidationResult>, with the map_err of lines 111-112. *)
ParseValidation(content) ==
  IF content.tag = "Json" THEN Ok(content.val)
  ELSE Err("Failed to parse validation response")

(* What send() and json() meet: a transport failure, a body that is not JSON, or a
   JSON object with or without the members error and choices. The status is not
   looked at (there is no error_for_status). *)
LLMReplies ==
  {[tag |-> "Transport"], [tag |-> "NotJson"]}
    \cup {[tag |-> "Object", error |-> e, choices |-> cs] :
            e \in {None, Some("invalid api key")},
            cs \in {None} \cup {Some(q) : q \in SeqsUpTo(ValidationContents, MaxChoices)}}

Panic(message) == [tag |-> "Panic", message |-> message]

(* call_llm (lines 230-243): LLMResponse needs the member choices and ignores any
   other; choices[0] of an empty Vec panics. *)
call_llm(reply) ==
  CASE reply.tag = "Transport" -> Err("error sending request")
    [] reply.tag = "NotJson" -> Err("error decoding response body")
    [] OTHER ->
         IF reply.choices.tag = "None" THEN Err("error decoding response body")
         ELSE IF Len(reply.choices.val) = 0
              THEN Panic("index out of bounds: the len is 0 but the index is 0")
              ELSE Ok(reply.choices.val[1])

(* validate_document (lines 82-115): the ? of line 110 hands an Err on, a panic
   unwinds through it, and what parses is returned as it is. *)
validate_document(reply) ==
  IF call_llm(reply).tag = "Ok" THEN ParseValidation(call_llm(reply).val)
  ELSE call_llm(reply)

InitStructured ==
  /\ api_key = "no-key-found"
  /\ mainPc = "structured" /\ i = 0 /\ presented = <<>>
  /\ CallIdle
  /\ nz = NzIdle /\ en = EnIdle /\ sm = SmIdle
  /\ OtherIdle
  /\ sa = SaIdle

(* validate_document is called and its request is sent. *)
ValidateCall ==
  /\ mainPc = "structured" /\ sa.op \in {"none", "returned"}
  /\ sa' = [SaIdle EXCEPT !.op = "await"]
  /\ UNCHANGED <<otherVars, nz, en, sm, mainVars, pc, text, prompt, m, inFlight, sent, attempts, calls,
                 result>>

(* The reply arrives and validate_document ends. *)
ValidateReturn ==
  /\ mainPc = "structured" /\ sa.op = "await"
  /\ \E reply \in LLMReplies :
       sa' = [op |-> "returned", reply |-> reply, called |-> call_llm(reply),
              returned |-> validate_document(reply)]
  /\ UNCHANGED <<otherVars, nz, en, sm, mainVars, pc, text, prompt, m, inFlight, sent, attempts, calls,
                 result>>

NextStructured ==
  \/ ValidateCall
  \/ ValidateReturn

SpecStructured == InitStructured /\ [][NextStructured]_vars

-----------------------------------------------------------------------------
(* analyze_document called on the first documents of main through one analyzer
   (&self), the calls interleaved at their network calls. Each call has its locals (text, prompt,
   the loop position, the response at hand, the result); the analyzer has api_key. *)

(* The responses of a batch: one of each kind that the iteration tells apart. *)
BatchResponses ==
  {[tag |-> "Err", error |-> "Transport"],
   [tag |-> "Ok", status |-> 200, body |-> [tag |-> "Undecodable"]],
   [tag |-> "Ok", status |-> 200,
    body |-> [tag |-> "Envelope", envelope |-> [error |-> Some("rate limited"), choices |-> None]]]}
    \cup {[tag |-> "Ok", status |-> 200,
           body |-> [tag |-> "Envelope",
                     envelope |-> [error |-> None, choices |-> Some(<<c>>)]]] :
            c \in {"{A}", "{B}", "I cannot analyze this."}}

BatchCall(doc_text) ==
  [text |-> doc_text, prompt |-> build_smart_analysis_prompt(doc_text), pc |-> "loop",
   m |-> 1, sent |-> <<>>, received |-> <<>>, result |-> NoResult]

(* A variant in which the analyzer keeps the last analysis and hands it to later calls. *)
BatchResult_cached(cs, c, step) ==
  IF \E d \in 1..Len(cs) : d # c /\ cs[d].result.tag = "Ok"
  THEN cs[CHOOSE d \in 1..Len(cs) : d # c /\ cs[d].result.tag = "Ok"].result
  ELSE step.result

(* What call c returns at a return of its iteration (lines 124, 132, 99-100): the
   value built in the iteration, from the call's own locals. *)
BatchResult(cs, c, step) == step.result

InitBatch ==
  /\ api_key = "sk-or-v1-0123456789abcdef"
  /\ mainPc = "batch" /\ i = 0 /\ presented = <<>>
  /\ CallIdle
  /\ nz = NzIdle /\ en = EnIdle /\ sm = SmIdle /\ sa = SaIdle
  /\ cipher = CipherIdle /\ reg = RegIdle
  /\ batch = [c \in 1..MaxBatch |-> BatchCall(test_documents[c])]

BatchUnchanged ==
  UNCHANGED <<nz, en, sm, sa, cipher, reg, mainVars, pc, text, prompt, m, inFlight, sent,
              attempts, calls, result>>

BatchSend(c) ==
  /\ mainPc = "batch" /\ batch[c].pc = "loop" /\ batch[c].m <= Len(models)
  /\ batch' = [batch EXCEPT
                 ![c].sent = Append(@, [key |-> api_key,
                                        request |-> OpenRouterRequest(LoopModel(batch[c].m),
                                                                      batch[c].prompt)]),
                 ![c].pc = "await"]
  /\ BatchUnchanged

BatchHandle(c) ==
  /\ mainPc = "batch" /\ batch[c].pc = "await"
  /\ \E response \in BatchResponses :
       LET step == ProcessResponse(response) IN
       batch' = [batch EXCEPT
                   ![c].received = Append(@, response),
                   ![c].result = IF step.tag = "Return" THEN BatchResult(batch, c, step) ELSE @,
                   ![c].pc = IF step.tag = "Return" THEN "ret" ELSE "loop",
                   ![c].m = IF step.tag = "Return" THEN @ ELSE AfterContinue(@)]
  /\ BatchUnchanged

BatchExhausted(c) ==
  /\ mainPc = "batch" /\ batch[c].pc = "loop" /\ batch[c].m > Len(models)
  /\ batch' = [batch EXCEPT ![c].result = Err(AllModelsFailed), ![c].pc = "ret"]
  /\ BatchUnchanged

NextBatch ==
  \/ \E c \in 1..MaxBatch : BatchSend(c)
  \/ \E c \in 1..MaxBatch : BatchHandle(c)
  \/ \E c \in 1..MaxBatch : BatchExhausted(c)

SpecBatch == InitBatch /\ [][NextBatch]_vars

-----------------------------------------------------------------------------
(* rust_encryption_tut, basic_ciphers.rs: XorCipher. Bytes are numbers 0..255. *)

(* u8 ^ u8, bit by bit. *)
RECURSIVE BitXor(_, _)
BitXor(a, b) ==
  IF a = 0 THEN b
  ELSE IF b = 0 THEN a
  ELSE (((a % 2) + (b % 2)) % 2) + 2 * BitXor(a \div 2, b \div 2)

(* xor_operation, were it to add the key byte instead. *)
xor_operation_adding(key, data) ==
  IF Len(key) = 0 /\ Len(data) > 0
  THEN Panic("attempt to calculate the remainder with a divisor of zero")
  ELSE Ok([k \in 1..Len(data) |-> (data[k] + key[((k - 1) % Len(key)) + 1]) % 256])

(* xor_operation (lines 24-29): byte i meets key[i % key.len()], i from 0; the
   remainder by an empty key's length panics at the first byte. *)
xor_operation(key, data) ==
  IF Len(key) = 0 /\ Len(data) > 0
  THEN Panic("attempt to calculate the remainder with a divisor of zero")
  ELSE Ok([k \in 1..Len(data) |-> BitXor(data[k], key[((k - 1) % Len(key)) + 1])])

XorEncrypt(key, data) == xor_operation(key, data)

XorDecrypt(key, data) == xor_operation(key, data)

CipherBytes == {0, 1, 107, 128, 255}

InitXor ==
  /\ api_key = "no-key-found"
  /\ mainPc = "xor" /\ i = 0 /\ presented = <<>>
  /\ CallIdle
  /\ nz = NzIdle /\ en = EnIdle /\ sm = SmIdle /\ sa = SaIdle
  /\ batch = BatchIdle /\ reg = RegIdle
  /\ \E key \in SeqsUpTo(CipherBytes, MaxKeyLen), data \in SeqsUpTo(CipherBytes, MaxDataLen) :
       cipher = [kind |-> "xor", key |-> key, data |-> data, encrypted |-> NoResult,
                 decrypted |-> NoResult, plain_decrypted |-> NoResult]

CipherUnchanged ==
  UNCHANGED <<nz, en, sm, sa, batch, reg, mainVars, pc, text, prompt, m, inFlight, sent,
              attempts, calls, result>>

(* cipher.encrypt(data). *)
XorEncryptData ==
  /\ mainPc = "xor" /\ cipher.encrypted = NoResult
  /\ cipher' = [cipher EXCEPT !.encrypted = XorEncrypt(cipher.key, cipher.data)]
  /\ CipherUnchanged

(* cipher.decrypt(&encrypted). *)
XorDecryptEncrypted ==
  /\ mainPc = "xor" /\ cipher.encrypted.tag = "Ok" /\ cipher.decrypted = NoResult
  /\ cipher' = [cipher EXCEPT !.decrypted = XorDecrypt(cipher.key, cipher.encrypted.val)]
  /\ CipherUnchanged

(* cipher.decrypt(data), on the data as they came. *)
XorDecryptData ==
  /\ mainPc = "xor" /\ cipher.plain_decrypted = NoResult
  /\ cipher' = [cipher EXCEPT !.plain_decrypted = XorDecrypt(cipher.key, cipher.data)]
  /\ CipherUnchanged

NextXor ==
  \/ XorEncryptData
  \/ XorDecryptEncrypted
  \/ XorDecryptData

SpecXor == InitXor /\ [][NextXor]_vars

-----------------------------------------------------------------------------
(* rust_encryption_tut, basic_ciphers.rs: CaesarCipher. An ASCII text is the
   sequence of its character codes; shift is a u8. The sums are u8 sums: one that
   leaves 0..255 panics in a build with overflow checks and wraps in one without. *)

IsAsciiLowercase(c) == c >= 97 /\ c <= 122

IsAsciiAlphabetic(c) == IsAsciiLowercase(c) \/ (c >= 65 /\ c <= 90)

Base(c) == IF IsAsciiLowercase(c) THEN 97 ELSE 65

(* Lines 45-51: (c as u8 - base + self.shift) % 26. *)
CaesarEncryptChar(shift, c, overflow) ==
  IF IsAsciiAlphabetic(c)
  THEN IF (c - Base(c)) + shift > 255
       THEN IF overflow = "wrap"
            THEN Ok(Base(c) + ((((c - Base(c)) + shift) % 256) % 26))
            ELSE Panic("attempt to add with overflow")
       ELSE Ok(Base(c) + (((c - Base(c)) + shift) % 26))
  ELSE Ok(c)

(* Lines 59-65: (c as u8 - base + 26 - self.shift) % 26, summed from the left. *)
CaesarDecryptChar(shift, c, overflow) ==
  IF IsAsciiAlphabetic(c)
  THEN IF (c - Base(c)) + 26 < shift
       THEN IF overflow = "wrap"
            THEN Ok(Base(c) + ((((c - Base(c)) + 26 - shift) % 256) % 26))
            ELSE Panic("attempt to subtract with overflow")
       ELSE Ok(Base(c) + (((c - Base(c)) + 26 - shift) % 26))
  ELSE Ok(c)

(* text.chars().map(..).collect(): the mapped characters, or the first panic. *)
CollectChars(q) ==
  IF \E k \in 1..Len(q) : q[k].tag = "Panic"
  THEN q[CHOOSE k \in 1..Len(q) : q[k].tag = "Panic" /\ \A j \in 1..(k - 1) : q[j].tag # "Panic"]
  ELSE Ok([k \in 1..Len(q) |-> q[k].val])

CaesarEncrypt(shift, str, overflow) ==
  CollectChars([k \in 1..Len(str) |-> CaesarEncryptChar(shift, str[k], overflow)])

CaesarDecrypt(shift, str, overflow) ==
  CollectChars([k \in 1..Len(str) |-> CaesarDecryptChar(shift, str[k], overflow)])

(* 'a', 'z', 'A', 'Z' and the space. *)
CaesarChars == {97, 122, 65, 90, 32}

Shifts == 0..255

OverflowModes == {"panic", "wrap"}

InitCaesar ==
  /\ api_key = "no-key-found"
  /\ mainPc = "caesar" /\ i = 0 /\ presented = <<>>
  /\ CallIdle
  /\ nz = NzIdle /\ en = EnIdle /\ sm = SmIdle /\ sa = SaIdle
  /\ batch = BatchIdle /\ reg = RegIdle
  /\ \E shift \in Shifts, str \in SeqsUpTo(CaesarChars, MaxTextLen),
        overflow \in OverflowModes :
       cipher = [kind |-> "caesar", shift |-> shift, text |-> str, overflow |-> overflow,
                 encrypted |-> NoResult, decrypted |-> NoResult]

(* cipher.encrypt(text). *)
CaesarEncryptText ==
  /\ mainPc = "caesar" /\ cipher.encrypted = NoResult
  /\ cipher' = [cipher EXCEPT
                  !.encrypted = CaesarEncrypt(cipher.shift, cipher.text, cipher.overflow)]
  /\ CipherUnchanged

(* cipher.decrypt(&encrypted). *)
CaesarDecryptEncrypted ==
  /\ mainPc = "caesar" /\ cipher.encrypted.tag = "Ok" /\ cipher.decrypted = NoResult
  /\ cipher' = [cipher EXCEPT
                  !.decrypted = CaesarDecrypt(cipher.shift, cipher.encrypted.val,
                                              cipher.overflow)]
  /\ CipherUnchanged

NextCaesar ==
  \/ CaesarEncryptText
  \/ CaesarDecryptEncrypted

SpecCaesar == InitCaesar /\ [][NextCaesar]_vars

-----------------------------------------------------------------------------
(* rust-di-tutorial, 04-arc-mutex-di: main spawns the registrations as tasks that
   share one repository and one email service, each behind its tokio Mutex. A task
   can be interleaved with the others wherever it awaits: at the two lock().await.
   The steps under a lock are kept apart, so that the lock is what orders them. *)

(* main: for i in 0..5, and MockEmailService::new(3). *)
NumTasks == 5
RateLimit == 3

Tasks == 0..(NumTasks - 1)

(* register_user (lines 114-118): the id is a fresh uuid, here the task's number. *)
NewUser(t) == [id |-> t, email |-> t, name |-> t]

(* A lock that lets everyone in. *)
Unlocked_ignored(mutex) == TRUE

(* Mutex::lock().await returns when no one holds the mutex. *)
Unlocked(mutex) == mutex = None

InitRegister ==
  /\ api_key = "no-key-found"
  /\ mainPc = "register" /\ i = 0 /\ presented = <<>>
  /\ CallIdle
  /\ nz = NzIdle /\ en = EnIdle /\ sm = SmIdle /\ sa = SaIdle
  /\ batch = BatchIdle /\ cipher = CipherIdle
  /\ reg = [tasks |-> [t \in Tasks |-> [pc |-> "spawned", result |-> NoResult]],
            users |-> {}, users_lock |-> None, sent_emails |-> <<>>,
            emails_lock |-> None, listed |-> NoResult]

RegUnchanged ==
  UNCHANGED <<nz, en, sm, sa, batch, cipher, mainVars, pc, text, prompt, m, inFlight, sent,
              attempts, calls, result>>

(* save, line 44: self.users.lock().await. *)
RegLockUsers(t) ==
  /\ mainPc = "register" /\ reg.tasks[t].pc = "spawned"
  /\ Unlocked(reg.users_lock)
  /\ reg' = [reg EXCEPT !.users_lock = Some(t), !.tasks[t].pc = "save"]
  /\ RegUnchanged

(* save, lines 45-47: the user is inserted under its id and the guard is dropped. *)
RegSave(t) ==
  /\ mainPc = "register" /\ reg.tasks[t].pc = "save"
  /\ reg' = [reg EXCEPT
               !.users = {u \in @ : u.id # NewUser(t).id} \cup {NewUser(t)},
               !.users_lock = None,
               !.tasks[t].pc = "saved"]
  /\ RegUnchanged

(* send_welcome_email, line 85: self.sent_emails.lock().await. *)
RegLockEmails(t) ==
  /\ mainPc = "register" /\ reg.tasks[t].pc = "saved"
  /\ Unlocked(reg.emails_lock)
  /\ reg' = [reg EXCEPT !.emails_lock = Some(t), !.tasks[t].pc = "check"]
  /\ RegUnchanged

(* send_welcome_email, lines 88-90: the limit is reached, the Err goes up through the ?
   of line 121 and register_user ends with it. *)
RegRefuse(t) ==
  /\ mainPc = "register" /\ reg.tasks[t].pc = "check"
  /\ Len(reg.sent_emails) >= RateLimit
  /\ reg' = [reg EXCEPT
               !.emails_lock = None,
               !.tasks[t] = [pc |-> "done", result |-> Err("Rate limit exceeded")]]
  /\ RegUnchanged

(* send_welcome_email, line 88: the limit is not reached. *)
RegPass(t) ==
  /\ mainPc = "register" /\ reg.tasks[t].pc = "check"
  /\ Len(reg.sent_emails) < RateLimit
  /\ reg' = [reg EXCEPT !.tasks[t].pc = "push"]
  /\ RegUnchanged

(* send_welcome_email, lines 92-94, and register_user, line 123. *)
RegPush(t) ==
  /\ mainPc = "register" /\ reg.tasks[t].pc = "push"
  /\ reg' = [reg EXCEPT
               !.sent_emails = Append(@, NewUser(t).email),
               !.emails_lock = None,
               !.tasks[t] = [pc |-> "done", result |-> Ok(NewUser(t))]]
  /\ RegUnchanged

(* main, lines 160-176: every handle has been awaited; the users and the emails are
   listed. *)
RegList ==
  /\ mainPc = "register" /\ reg.listed = NoResult
  /\ \A t \in Tasks : reg.tasks[t].pc = "done"
  /\ reg' = [reg EXCEPT !.listed = Some([users |-> reg.users, sent_emails |-> reg.sent_emails])]
  /\ RegUnchanged

NextRegister ==
  \/ \E t \in Tasks : RegLockUsers(t)
  \/ \E t \in Tasks : RegSave(t)
  \/ \E t \in Tasks : RegLockEmails(t)
  \/ \E t \in Tasks : RegRefuse(t)
  \/ \E t \in Tasks : RegPass(t)
  \/ \E t \in Tasks : RegPush(t)
  \/ RegList

SpecRegister == InitRegister /\ [][NextRegister]_vars

-----------------------------------------------------------------------------
(* Vocabulary of the properties. *)

Succeeded(outcome) == outcome \in {"parsed", "repaired"}

(* A content parses, strictly or after the brace repair, and the document it parses to. *)
ParsesStrictly(c) == StrictParse(CleanJson(c)).tag = "Some"

ParsesRepaired(c) ==
  /\ ~ParsesStrictly(c)
  /\ extract_json_from_text(CleanJson(c)).tag = "Some"
  /\ StrictParse(extract_json_from_text(CleanJson(c)).val).tag = "Some"

Parses(c) == ParsesStrictly(c) \/ ParsesRepaired(c)

ParsedDocument(c) ==
  IF ParsesStrictly(c)
  THEN StrictParse(CleanJson(c)).val
  ELSE StrictParse(extract_json_from_text(CleanJson(c)).val).val

Occurrences(q, x) == Cardinality({k \in 1..Len(q) : q[k] = x})

RequestsTo(model) == Cardinality({k \in 1..Len(sent) : sent[k].model = model})

LastAttempt == attempts[Len(attempts)]

-----------------------------------------------------------------------------
(* C1: short-circuit.  As soon as the content of one backend's response parses
   (strictly or after brace repair), analyze_document returns the enhanced analysis
   of that content: the attempt is the last one of the call, exactly one attempt
   succeeded, nothing is in flight and no model later in the list has received a
   request. *)
C1_ShortCircuit ==
  /\ \A k \in 1..Len(attempts) :
       (attempts[k].content.tag = "Some" /\ Parses(attempts[k].content.val))
         => /\ k = Len(attempts)
            /\ Succeeded(attempts[k].outcome)
            /\ result = Ok(enhance_analysis(ParsedDocument(attempts[k].content.val)))
  /\ result.tag = "Ok"
       => /\ Cardinality({k \in 1..Len(attempts) : Succeeded(attempts[k].outcome)}) = 1
          /\ Succeeded(LastAttempt.outcome)
          /\ inFlight = {}
          /\ Len(sent) = Len(attempts)
          /\ \A k \in (Len(attempts) + 1)..Len(models) : RequestsTo(models[k]) = 0

(* The first model's content needed the repair and was returned; the second model,
   which is later in the list, was never asked. *)
C1_Witness ==
  /\ result.tag = "Ok" /\ Len(attempts) = 1 /\ Len(models) > 1
  /\ attempts[1].outcome = "repaired"
  /\ RequestsTo(models[2]) = 0

(* C2: analyze_document returns an error only after every backend of the list has
   been attempted; a failure of one attempt is never returned while an untried
   backend remains. *)
C2_ErrorOnlyAfterAllTried ==
  result.tag = "Err" => Len(attempts) = Len(models)

(* C3: backends are attempted in the order of the list and one at a time: the k-th
   request goes to the k-th model, at most one request is in flight, and a request is
   sent only when every earlier attempt has completed with a failure. *)
C3_OrderedSequential ==
  /\ Cardinality(inFlight) <= 1
  /\ \A k \in 1..Len(sent) : k <= Len(models) /\ sent[k].model = models[k]
  /\ Len(sent) = Len(attempts) + Cardinality(inFlight)
  /\ \A k \in 1..(Len(sent) - 1) :
       k <= Len(attempts) /\ ~Succeeded(attempts[k].outcome)
  /\ inFlight # {} => \A k \in 1..Len(attempts) : ~Succeeded(attempts[k].outcome)

(* The second model's request is in flight after the first attempt failed. *)
C3_Witness ==
  /\ Len(sent) = 2 /\ inFlight = {2}
  /\ Len(attempts) = 1 /\ attempts[1].outcome = "HTTP failure"

(* C4, as stated: when every backend has failed, the error returned aggregates the
   failure reason of every backend, one entry per backend, in order.  It is stated
   for the calls in which the loop ran through the whole list, so that its failure
   does not rest on the early return that C2 is about. *)
C4_AggregatesEveryReason ==
  (result.tag = "Err" /\ Len(attempts) = Len(models) /\ m > Len(models))
    => \A k \in 1..Len(attempts) : Contains(result.error, attempts[k].outcome)

(* C4, amended: when every backend has failed, the error returned is a single
   message that aggregates nothing: the fixed message of line 153 when the last
   attempt ended in a failure the loop passes over, the read or decode error of the
   last backend's body when the last attempt ended that way; the failure reason of no
   earlier backend is in it. *)
C4_SingleMessage ==
  (result.tag = "Err" /\ Len(attempts) = Len(models))
    => /\ result.error =
            IF LastAttempt.outcome \in
                 {"response body unreadable", "response envelope undecodable"}
            THEN LastAttempt.outcome
            ELSE "All models failed. Using enhanced simulation."
       /\ \A k \in 1..(Len(attempts) - 1) : ~Contains(result.error, attempts[k].outcome)

(* Both backends failed, in two different ways, and the fixed message came back. *)
C4_Witness ==
  /\ result = Err("All models failed. Using enhanced simulation.")
  /\ Len(attempts) = Len(models)
  /\ attempts[1].outcome = "transport failure"
  /\ attempts[2].outcome = "JSON parse error"

(* C5: no retry.  During one call each model receives at most one request and the
   number of requests is at most the length of the list. *)
C5_NoRetry ==
  /\ Len(sent) <= Len(models)
  /\ \A k \in 1..Len(models) : RequestsTo(models[k]) <= 1

(* Every model was asked once, each failing in its own way. *)
C5_Witness ==
  /\ pc = "ret" /\ Len(sent) = Len(models)
  /\ attempts[1].outcome = "Model error"
  /\ attempts[2].outcome = "no choice"
  /\ \A k \in 1..Len(models) : RequestsTo(models[k]) = 1

(* C6: an empty text is rejected with InvalidInput before any request is sent. *)
C6_EmptyTextRejected ==
  (pc # "idle" /\ text = "")
    => /\ sent = <<>>
       /\ result # NoResult => result = Err("InvalidInput")

(* C7: main never ends without a result.  Every document handled has exactly one
   record presented, at its own index: the analysis that analyze_document returned
   when it returned Ok, the simulation record of the same index when it returned any
   error.  The simulation record of the bank statement (index 2) has document_type
   "Bank Statement", confidence 0.95 and the two insights of the statement. *)
C7_AlwaysOneResult ==
  /\ Len(presented) = i
  /\ \A k \in 1..Len(presented) : presented[k].index = k - 1
  /\ mainPc = "done" => Len(presented) = Len(test_documents)
  /\ (KeyUsable(api_key) /\ mainPc \in {"loop", "done"} /\ i > 0)
       => \/ /\ result.tag = "Ok"
             /\ presented[i] = Presented(i - 1, "analysis", result.val)
          \/ /\ result.tag = "Err"
             /\ presented[i] =
                  Presented(i - 1, "simulation",
                            <<SimInvoice, SimReceipt, SimBankStatement, SimTaxForm>>[i])
  /\ \A k \in 1..Len(presented) :
       (presented[k].index = 2 /\ presented[k].source = "simulation")
         => /\ presented[k].analysis.document_type = "Bank Statement"
            /\ presented[k].analysis.confidence = 950
            /\ \E a, b \in 1..Len(presented[k].analysis.document_insights) :
                 /\ presented[k].analysis.document_insights[a] = "Ending balance: $16,714.50"
                 /\ presented[k].analysis.document_insights[b] =
                      "Statement period: Jan 1-31, 2024"

(* The bank statement was analyzed with both backends unreachable and its
   simulation record has just been presented. *)
C7_Witness ==
  /\ mainPc = "loop" /\ pc = "idle" /\ i = 3
  /\ text = test_documents[3]
  /\ Len(attempts) = Len(models)
  /\ \A k \in 1..Len(attempts) : attempts[k].outcome = "transport failure"
  /\ presented[3].source = "simulation"

(* C8: every analysis that analyze_document returns Ok has been through
   enhance_analysis exactly once, on the strict path and on the repair path: the call
   made one call of the enhancer and the value returned is the enhancer's value of
   the document parsed. *)
C8_EnhancedExactlyOnce ==
  result.tag = "Ok"
    => /\ Occurrences(calls, "enhance_analysis") = 1
       /\ LastAttempt.content.tag = "Some"
       /\ result.val = enhance_analysis(ParsedDocument(LastAttempt.content.val))

(* An analysis came back by the repair path, after a first backend had failed to
   parse. *)
C8_Witness ==
  /\ result.tag = "Ok" /\ Len(attempts) = 2
  /\ attempts[1].outcome = "JSON parse error"
  /\ attempts[2].outcome = "repaired"

-----------------------------------------------------------------------------
(* Vocabulary of the properties of the normaliser. *)

NormaliserRuns == {nz.plain, nz.wrapped} \ {NoResult}

FirstOpen(t, a) == Char(t, a) = "{" /\ \A h \in 1..(a - 1) : Char(t, h) # "{"

LastClose(t, b) == Char(t, b) = "}" /\ \A h \in (b + 1)..Len(t) : Char(t, h) # "}"

(* The document a run parsed, by the strict parse or by the parse of the repair. *)
RunDocument(r) ==
  IF r.strict.tag = "Some" THEN r.strict
  ELSE IF r.fixed_json.tag = "Some" THEN StrictParse(r.fixed_json.val)
  ELSE None

(* The repair comes only after a strict parse that failed. *)
RepairOnlyAfterFailure(r) ==
  /\ Occurrences(r.step.calls, "extract_json_from_text") > 0
       => /\ r.strict.tag = "None"
          /\ r.step.calls[1] = "from_str"
          /\ r.step.calls[2] = "extract_json_from_text"
  /\ r.strict.tag = "Some" => Occurrences(r.step.calls, "extract_json_from_text") = 0

(* The repair takes the text from the first "{" to the last "}" inclusive exactly when
   both exist and the last "}" is after the first "{"; otherwise it yields nothing and
   the iteration ends in a failure. *)
RepairTakesOuterBraces(r) ==
  r.strict.tag = "None"
    => LET t == r.clean_json IN
       IF \E a, b \in 1..Len(t) : FirstOpen(t, a) /\ LastClose(t, b) /\ b > a
       THEN \E a, b \in 1..Len(t) :
              /\ FirstOpen(t, a) /\ LastClose(t, b) /\ b > a
              /\ r.fixed_json = Some(SubSeq(t, a, b))
       ELSE /\ r.fixed_json = None
            /\ r.step.tag = "Continue"
            /\ r.step.outcome = "JSON parse error"

(* The wrapped run was on prose, an object that parses, prose. *)
ProseAroundObject ==
  /\ nz.wrapped # NoResult
  /\ nz.pre \in ProsePrefixes /\ nz.post \in ProseSuffixes
  /\ StrictParse(nz.core).tag = "Some"

WrappedRunGivesTheObject ==
  /\ nz.wrapped.step.tag = "Return"
  /\ nz.wrapped.step.result = Ok(enhance_analysis(StrictParse(nz.core).val))

(* C9, as stated: the repair is attempted only after the strict parse of the cleaned
   content has failed; it takes the text from the first "{" to the last "}" exactly
   when both exist and the last "}" is after the first "{", and otherwise the backend
   is treated as failed; a content of the form prose, valid object, prose parses. *)
C9_RepairAnyProse ==
  /\ \A r \in NormaliserRuns : RepairOnlyAfterFailure(r) /\ RepairTakesOuterBraces(r)
  /\ ProseAroundObject => WrappedRunGivesTheObject

(* C9, amended: as C9, the last part for prose whose leading part holds no "{" and
   whose trailing part holds no "}". *)
C9_RepairBraceFreeProse ==
  /\ \A r \in NormaliserRuns : RepairOnlyAfterFailure(r) /\ RepairTakesOuterBraces(r)
  /\ (ProseAroundObject /\ ~Contains(nz.pre, "{") /\ ~Contains(nz.post, "}"))
       => WrappedRunGivesTheObject

(* The object between two pieces of prose came back by the repair. *)
C9_Witness ==
  /\ nz.wrapped # NoResult
  /\ nz.pre = "Here is the result: " /\ nz.core = "{A}" /\ nz.post = " Thanks!"
  /\ nz.wrapped.strict.tag = "None"
  /\ nz.wrapped.fixed_json = Some("{A}")
  /\ nz.wrapped.step.outcome = "repaired"

(* C10: for a content that is a valid analysis object, normalising it wrapped in a
   code fence (with or without json, with white space around) parses to the same
   analysis as normalising the content itself. *)
C10_FenceEquivalence ==
  (/\ nz.plain # NoResult /\ nz.wrapped # NoResult
   /\ StrictParse(nz.core).tag = "Some"
   /\ nz.pre \in FencePrefixes /\ nz.post \in FenceSuffixes)
    => /\ RunDocument(nz.plain).tag = "Some"
       /\ RunDocument(nz.wrapped) = RunDocument(nz.plain)
       /\ nz.wrapped.step.result = nz.plain.step.result

(* A fenced object, white space around the fence and inside it, and the object
   itself, both normalised to the same document. *)
C10_Witness ==
  /\ nz.plain # NoResult /\ nz.wrapped # NoResult
  /\ nz.pre = " " \o FenceJson \o " \n" /\ nz.core = "{B}" /\ nz.post = "\n" \o Fence \o " \n"
  /\ nz.wrapped.clean_json = "{B}"
  /\ nz.wrapped.step.result = nz.plain.step.result
  /\ nz.plain.step.result.tag = "Ok"

-----------------------------------------------------------------------------
(* C11: applying the enhancer to a record it has already enhanced changes nothing:
   the second application returns the record the first one returned, so no insight
   appears twice and no further validation error goes. *)
C11_EnhanceIdempotent ==
  en.twice # NoResult => en.twice.val = en.once.val

(* The enhancer has run twice on a bank statement that came with an insight of its
   own, the first run removed an error and wrote two insights, and the second run
   returned the same record. *)
C11_Witness ==
  /\ en.twice # NoResult
  /\ en.input.val.document_type = "Bank Statement"
  /\ en.input.val.document_insights # <<>>
  /\ Len(en.once.val.validation_errors) < Len(en.input.val.validation_errors)
  /\ Len(en.once.val.document_insights) = 2
  /\ en.twice.val = en.once.val

-----------------------------------------------------------------------------
(* Vocabulary of the enhancer's properties. *)

Has(q, x) == \E k \in 1..Len(q) : q[k] = x

UpperLetters == "ABCDEFGHIJKLMNOPQRSTUVWXYZ"
LowerLetters == "abcdefghijklmnopqrstuvwxyz"

ToLowerChar(c) ==
  IF \E k \in 1..Len(UpperLetters) : Char(UpperLetters, k) = c
  THEN Char(LowerLetters, CHOOSE k \in 1..Len(UpperLetters) : Char(UpperLetters, k) = c)
  ELSE c

RECURSIVE ToLower(_)
ToLower(s) ==
  IF s = "" THEN "" ELSE ToLowerChar(Char(s, 1)) \o ToLower(SubSeq(s, 2, Len(s)))

RECURSIVE WithoutSpace(_)
WithoutSpace(s) ==
  IF s = "" THEN ""
  ELSE (IF Char(s, 1) \in WhiteSpace THEN "" ELSE Char(s, 1))
         \o WithoutSpace(SubSeq(s, 2, Len(s)))

(* A type string up to letter case and white space. *)
Squash(s) == WithoutSpace(ToLower(s))

CanonicalTypes == {"Bank Statement", "Invoice", "Receipt"}

CanonicalType(dt) ==
  IF \E t \in CanonicalTypes : Squash(t) = Squash(dt)
  THEN CHOOSE t \in CanonicalTypes : Squash(t) = Squash(dt)
  ELSE dt

(* The type strings the enhancer treats as a bank statement (line 189). *)
BankStatementTypes == {"Bank Statement", "Bank"}

MentionsVendorOrClient(error) ==
  Contains(ToLower(error), "vendor") \/ Contains(ToLower(error), "client")

HoldsVendorOrClient(error) == Contains(error, "vendor") \/ Contains(error, "client")

Gated(a, key, label) ==
  IF key \in DOMAIN a.extracted_data THEN <<label \o a.extracted_data[key]>> ELSE <<>>

ExpectedTypeInsights(a) ==
  CASE a.document_type \in BankStatementTypes ->
         Gated(a, "ending_balance", "Ending balance: ")
           \o Gated(a, "period", "Statement period: ")
    [] a.document_type = "Invoice" ->
         Gated(a, "due_date", "Payment due: ") \o Gated(a, "tax_amount", "Tax amount: ")
    [] a.document_type = "Receipt" ->
         Gated(a, "store", "Purchase from: ") \o Gated(a, "payment_method", "Paid with: ")
    [] OTHER -> <<>>

ConfidenceTexts == {"High confidence analysis", "Moderate confidence analysis"}

-----------------------------------------------------------------------------
(* C12: the enhanced record holds "High confidence analysis" exactly when the
   confidence is above 0.9, "Moderate confidence analysis" exactly when it is above
   0.7 and at most 0.9, neither when it is at most 0.7, and never both. *)
C12_ConfidenceThresholds ==
  en.once # NoResult =>
    LET c == en.input.val.confidence
        ins == en.once.val.document_insights
    IN /\ Has(ins, "High confidence analysis") <=> c > 900
       /\ Has(ins, "Moderate confidence analysis") <=> (c > 700 /\ c <= 900)
       /\ ~(Has(ins, "High confidence analysis") /\ Has(ins, "Moderate confidence analysis"))

(* A record of confidence 0.90 exactly, which came claiming high confidence, has been
   enhanced: it holds the moderate insight and not the high one. *)
C12_Witness ==
  /\ en.once # NoResult
  /\ en.input.val.confidence = 900
  /\ Has(en.input.val.document_insights, "High confidence analysis")
  /\ Has(en.once.val.document_insights, "Moderate confidence analysis")
  /\ ~Has(en.once.val.document_insights, "High confidence analysis")

(* C13: the enhancer treats a record whose type differs from "Bank Statement",
   "Invoice" or "Receipt" only in letter case or white space as it treats the record
   with the canonical type: the same insights and the same validation errors. *)
C13_DispatchIgnoresCaseAndSpace ==
  en.once # NoResult =>
    LET canonical == [en.input.val EXCEPT !.document_type = CanonicalType(@)]
    IN /\ en.once.val.document_insights = enhance_analysis(canonical).document_insights
       /\ en.once.val.validation_errors = enhance_analysis(canonical).validation_errors

(* C14 as stated: for a bank statement the enhancer removes every validation error
   that mentions a vendor or a client, in whatever letter case, and keeps the others
   in order; for any other type it leaves the list alone. *)
C14_RemovesEveryMention ==
  en.once # NoResult =>
    en.once.val.validation_errors =
      IF en.input.val.document_type \in BankStatementTypes
      THEN SelectSeq(en.input.val.validation_errors,
                     LAMBDA error : ~MentionsVendorOrClient(error))
      ELSE en.input.val.validation_errors

(* C14 amended: for a record whose type is "Bank Statement" or "Bank" the enhancer
   removes exactly the validation errors that hold the lower-case text "vendor" or
   "client" and keeps the others in order; for any other type string it leaves the
   list alone. *)
C14_RemovesLowerCaseMentions ==
  en.once # NoResult =>
    en.once.val.validation_errors =
      IF en.input.val.document_type \in BankStatementTypes
      THEN SelectSeq(en.input.val.validation_errors,
                     LAMBDA error : ~HoldsVendorOrClient(error))
      ELSE en.input.val.validation_errors

(* A bank statement came with a capitalised and a lower-case vendor error: the
   enhancer removed the lower-case one and kept the capitalised one. *)
C14_Witness ==
  /\ en.once # NoResult
  /\ en.input.val.document_type = "Bank Statement"
  /\ en.input.val.validation_errors = <<"Vendor Name Missing", "Missing vendor name">>
  /\ en.once.val.validation_errors = <<"Vendor Name Missing">>

(* C15: the enhancer returns for every record; the type-specific insights are one
   per key present, in the fixed order of the type, none for a type it does not
   know; nothing but confidence insights follows them; and no validation error is
   added, whatever keys are missing. *)
C15_InsightsGatedByPresence ==
  /\ en.input # NoResult /\ en.once = NoResult => ENABLED EnhanceOnce
  /\ en.once # NoResult =>
       LET a == en.input.val
           ins == en.once.val.document_insights
           n == Len(ExpectedTypeInsights(a))
       IN /\ Len(ins) >= n
          /\ SubSeq(ins, 1, n) = ExpectedTypeInsights(a)
          /\ \A k \in (n + 1)..Len(ins) : ins[k] \in ConfidenceTexts
          /\ Len(en.once.val.validation_errors) <= Len(a.validation_errors)
          /\ \A k \in 1..Len(en.once.val.validation_errors) :
                Has(a.validation_errors, en.once.val.validation_errors[k])

(* An invoice without a due date and with a tax amount has been enhanced: the tax
   insight alone precedes the confidence insight, and its errors are as they came. *)
C15_Witness ==
  /\ en.once # NoResult
  /\ en.input.val.document_type = "Invoice"
  /\ DOMAIN en.input.val.extracted_data = {"tax_amount"}
  /\ en.input.val.validation_errors # <<>>
  /\ en.once.val.document_insights = <<"Tax amount: $440.00", "High confidence analysis">>
  /\ en.once.val.validation_errors = en.input.val.validation_errors

-----------------------------------------------------------------------------
(* C16: every analysis that analyze_document returns has a confidence between 0
   and 1: a confidence outside the range is clamped or refused. *)
C16_ConfidenceInRange ==
  result.tag = "Ok" => (result.val.confidence >= 0 /\ result.val.confidence <= 1000)

-----------------------------------------------------------------------------
(* C18: an envelope that carries an error fails its backend whatever its choices
   hold: the attempt ends as a model error without a content being read, no analysis
   comes of it, and the loop goes on to the next model of the list. *)
C18_ErrorBeforeChoices ==
  \A k \in 1..Len(attempts) :
    attempts[k].reported =>
      /\ attempts[k].outcome = "Model error"
      /\ attempts[k].content = None
      /\ k = Len(attempts) => result.tag # "Ok"
      /\ k = Len(attempts) /\ pc = "loop" => m = k + 1
      /\ k < Len(attempts) => attempts[k + 1].model = models[k + 1]

(* The first model answered with an error and a choice that would have parsed; the
   second model was asked and its analysis is the result. *)
C18_Witness ==
  /\ Len(attempts) = 2
  /\ attempts[1].reported
  /\ attempts[1].offered # None /\ Parses(attempts[1].offered.val)
  /\ attempts[1].outcome = "Model error"
  /\ attempts[2].model = models[2]
  /\ Succeeded(attempts[2].outcome)
  /\ result.tag = "Ok"

-----------------------------------------------------------------------------
(* C17: a ValidationResult that validate_document returns and that lists a missing
   field, a data quality issue or a compliance issue is not valid, whatever the
   model answered. *)
C17_IssuesImplyInvalid ==
  /\ sa.returned.tag = "Ok"
  /\ \/ sa.returned.val.missing_fields # <<>>
     \/ sa.returned.val.data_quality_issues # <<>>
     \/ sa.returned.val.compliance_issues # <<>>
  => ~sa.returned.val.is_valid

(* C19: whatever the envelope holds, call_llm of the structured analyzer ends with
   the content of the first choice or with an Err, never with an index out of range. *)
C19_NeverIndexesEmptyChoices ==
  sa.op = "returned" =>
    \/ sa.called.tag = "Err"
    \/ /\ sa.called.tag = "Ok"
       /\ sa.reply.tag = "Object" /\ sa.reply.choices.tag = "Some"
       /\ Len(sa.reply.choices.val) > 0
       /\ sa.called.val = sa.reply.choices.val[1]

-----------------------------------------------------------------------------
(* C20: the simulation answers every index and every text, with a record that the
   index alone decides and without a request to any backend: Invoice at 0.96 for
   index 0, Receipt at 0.94 for 1, Bank Statement at 0.95 for 2, Tax Form W-2 at 0.97
   for 3, and for every other index "Unknown" at 0.5 with no extracted data and no
   insights. *)
C20_SimulationLookup ==
  /\ sm.shown = NoResult /\ mainPc = "simulator" => ENABLED Simulate
  /\ sm.shown # NoResult =>
       LET a == sm.shown.val
           Is(dt, conf) == a.document_type = dt /\ a.confidence = conf
       IN /\ sm.doc_num = 0 => Is("Invoice", 960)
          /\ sm.doc_num = 1 => Is("Receipt", 940)
          /\ sm.doc_num = 2 => Is("Bank Statement", 950)
          /\ sm.doc_num = 3 => Is("Tax Form W-2", 970)
          /\ sm.doc_num > 3 =>
                /\ Is("Unknown", 500)
                /\ a.extracted_data = EmptyMap
                /\ a.document_insights = <<>>
          /\ a = intelligent_simulation(sm.doc_num, "")
          /\ sent = <<>> /\ inFlight = {}

(* The simulation was handed index 5 and the text of the first test document, an
   invoice, and showed the record of an unknown document. *)
C20_Witness ==
  /\ sm.shown # NoResult
  /\ sm.doc_num = 5
  /\ sm.doc_text = test_documents[1]
  /\ sm.shown.val.document_type = "Unknown"
  /\ sm.shown.val.confidence = 500

-----------------------------------------------------------------------------
(* analyze_document run alone on the responses q, from the k-th on, the loop at
   position pos: the result it returns, or NoResult while it waits for a response. *)
RECURSIVE AnalyzeAlone(_, _, _)
AnalyzeAlone(q, k, pos) ==
  IF pos > Len(models) THEN Err(AllModelsFailed)
  ELSE IF k > Len(q) THEN NoResult
  ELSE IF ProcessResponse(q[k]).tag = "Return" THEN ProcessResponse(q[k]).result
  ELSE AnalyzeAlone(q, k + 1, pos + 1)

(* C21: the calls of a batch do not touch one another: the analyzer's key stays as
   it was built, every request of a call carries that key and the prompt of the
   call's own text, and the result of every call that has returned is the result of
   analyze_document run alone on the responses the call itself received. *)
C21_CallsIndependent ==
  /\ api_key = "sk-or-v1-0123456789abcdef"
  /\ \A c \in 1..Len(batch) :
       /\ \A k \in 1..Len(batch[c].sent) :
            /\ batch[c].sent[k].key = api_key
            /\ batch[c].sent[k].request =
                 OpenRouterRequest(models[k], build_smart_analysis_prompt(batch[c].text))
       /\ batch[c].pc = "ret" => batch[c].result = AnalyzeAlone(batch[c].received, 1, 1)
       /\ batch[c].pc # "ret" => batch[c].result = NoResult

(* Both calls of a batch have returned: the first got its analysis from the second
   model, the second got another analysis from the first model. *)
C21_Witness ==
  /\ Len(batch) >= 2
  /\ batch[1].pc = "ret" /\ batch[2].pc = "ret"
  /\ Len(batch[1].received) = 2 /\ Len(batch[2].received) = 1
  /\ batch[1].result.tag = "Ok" /\ batch[2].result.tag = "Ok"
  /\ batch[1].result # batch[2].result

-----------------------------------------------------------------------------
(* C22: with a key that is not empty, the XOR cipher's encrypt returns as many bytes
   as it was given, decrypt of what encrypt returned is the data, and decrypt of any
   data is what encrypt of those data is. *)
C22_XorRoundTrip ==
  cipher.kind = "xor" /\ Len(cipher.key) > 0 =>
    /\ cipher.encrypted # NoResult =>
         /\ cipher.encrypted.tag = "Ok"
         /\ Len(cipher.encrypted.val) = Len(cipher.data)
    /\ cipher.decrypted # NoResult => cipher.decrypted = Ok(cipher.data)
    /\ cipher.encrypted # NoResult /\ cipher.plain_decrypted # NoResult =>
         cipher.plain_decrypted = cipher.encrypted

(* Three bytes went through a two-byte key, so the key was used again from its
   start; the encrypted bytes differ from the data and decrypt gave the data back. *)
C22_Witness ==
  /\ cipher.kind = "xor"
  /\ Len(cipher.key) = 2 /\ cipher.key[1] # cipher.key[2]
  /\ Len(cipher.data) = 3
  /\ cipher.encrypted.tag = "Ok"
  /\ \A k \in 1..3 : cipher.encrypted.val[k] # cipher.data[k]
  /\ cipher.decrypted = Ok(cipher.data)
  /\ cipher.plain_decrypted = cipher.encrypted

-----------------------------------------------------------------------------
(* C23: for every shift of 0..255 and every ASCII text, the Caesar cipher's encrypt
   and decrypt end without an overflow of their 8-bit sums, encrypt keeps every
   letter a letter of its own case and every other character as it is, and decrypt
   of what encrypt returned is the text. *)
C23_CaesarRoundTrip ==
  cipher.kind = "caesar" =>
    /\ cipher.encrypted # NoResult =>
         /\ cipher.encrypted.tag = "Ok"
         /\ Len(cipher.encrypted.val) = Len(cipher.text)
         /\ \A k \in 1..Len(cipher.text) :
              IF IsAsciiAlphabetic(cipher.text[k])
              THEN /\ IsAsciiAlphabetic(cipher.encrypted.val[k])
                   /\ Base(cipher.encrypted.val[k]) = Base(cipher.text[k])
              ELSE cipher.encrypted.val[k] = cipher.text[k]
    /\ cipher.decrypted # NoResult => cipher.decrypted = Ok(cipher.text)

-----------------------------------------------------------------------------
(* C24: a call of analyze_document that is under way returns, with an analysis or
   with an error, and it sends no more requests than the list has models: a model
   that does not answer within the timeout is a failure like any other. *)
C24_CallTerminates ==
  /\ [](Len(sent) <= Len(models))
  /\ (pc \in {"loop", "await"}) ~> (pc = "ret")

(* The first model did not answer in time, the second was asked and the call has
   returned its analysis. *)
C24_Witness ==
  /\ pc = "ret"
  /\ Len(attempts) = 2
  /\ attempts[1].outcome = "transport failure"
  /\ Len(sent) = Len(models)
  /\ result.tag = "Ok"

-----------------------------------------------------------------------------
(* C25: the insights of an analysis that analyze_document returns are the enhancer's:
   each is a type-specific insight of the record or a confidence insight, and an
   insight the model wrote in its JSON is there only if the enhancer derived the
   same text. *)
C25_InsightsDerivedOnly ==
  result.tag = "Ok" =>
    LET ins == result.val.document_insights
        derived(entry) ==
          entry \in ConfidenceTexts \/ Has(ExpectedTypeInsights(result.val), entry)
        supplied == ParsedDocument(LastAttempt.content.val).document_insights
    IN /\ \A k \in 1..Len(ins) : derived(ins[k])
       /\ \A k \in 1..Len(supplied) : Has(ins, supplied[k]) => derived(supplied[k])

(* The model's JSON came with an insight of its own; the analysis returned holds the
   enhancer's insights and not the model's. *)
C25_Witness ==
  /\ result.tag = "Ok"
  /\ LastAttempt.content.tag = "Some"
  /\ ParsedDocument(LastAttempt.content.val).document_insights # <<>>
  /\ Len(result.val.document_insights) = 2
  /\ \A k \in 1..Len(ParsedDocument(LastAttempt.content.val).document_insights) :
       ~Has(result.val.document_insights,
            ParsedDocument(LastAttempt.content.val).document_insights[k])

-----------------------------------------------------------------------------
(* q is r with entries removed: nothing added, nothing moved. *)
RECURSIVE IsSubSeq(_, _)
IsSubSeq(q, r) ==
  IF q = <<>> THEN TRUE
  ELSE IF r = <<>> THEN FALSE
  ELSE IF Head(q) = Head(r) THEN IsSubSeq(Tail(q), Tail(r))
  ELSE IsSubSeq(q, Tail(r))

(* C26: the enhancer leaves document_type, confidence, extracted_data and
   suggested_categories as they were; validation_errors is as it was for every
   record that is not a bank statement, and for a bank statement it is the old list
   with entries removed. *)
C26_EnhanceFrame ==
  en.once # NoResult =>
    LET a == en.input.val
        b == en.once.val
    IN /\ b.document_type = a.document_type
       /\ b.confidence = a.confidence
       /\ b.extracted_data = a.extracted_data
       /\ b.suggested_categories = a.suggested_categories
       /\ DOMAIN b = DOMAIN a
       /\ IF a.document_type \in BankStatementTypes
          THEN IsSubSeq(b.validation_errors, a.validation_errors)
          ELSE b.validation_errors = a.validation_errors

(* An invoice with a category, a key and a vendor error has been enhanced: its
   insights changed and nothing else did. *)
C26_Witness ==
  /\ en.once # NoResult
  /\ en.input.val.document_type = "Invoice"
  /\ en.input.val.suggested_categories # <<>>
  /\ en.input.val.extracted_data # EmptyMap
  /\ Has(en.input.val.validation_errors, "Missing vendor name")
  /\ en.once.val.document_insights # en.input.val.document_insights
  /\ en.once.val = [en.input.val EXCEPT !.document_insights = en.once.val.document_insights]

(* C27 as stated: every record of the simulation is a fixed point of the enhancer:
   enhanced, it has the insights and the validation errors it was written with. *)
C27_SimulationFixedPoints ==
  en.once # NoResult /\ en.input.val \in SimulationRecords =>
    /\ en.once.val.document_insights = en.input.val.document_insights
    /\ en.once.val.validation_errors = en.input.val.validation_errors

(* C27 amended: enhanced, every record of the simulation has the validation errors
   it was written with; the records of the invoice, the receipt, the bank statement
   and the unknown document have the insights they were written with too, and the
   record of the tax form is left with the confidence insight alone. *)
C27_FixedPointsButTaxForm ==
  en.once # NoResult /\ en.input.val \in SimulationRecords =>
    /\ en.once.val.validation_errors = en.input.val.validation_errors
    /\ en.once.val.document_insights =
         IF en.input.val.document_type = "Tax Form W-2"
         THEN <<"High confidence analysis">>
         ELSE en.input.val.document_insights

(* The tax form's record has been enhanced and has lost the two insights on the tax
   year and the wages. *)
C27_Witness ==
  /\ en.once # NoResult
  /\ en.input.val = intelligent_simulation(3, "")
  /\ Len(en.input.val.document_insights) = 3
  /\ en.once.val.document_insights = <<"High confidence analysis">>

-----------------------------------------------------------------------------
(* C28: with a key that does not start with "sk-or-" or has 20 characters or fewer,
   main does not enter the analyzer's loop and no request is sent; the documents are
   answered in their order, each by the simulation of its own index, and at the end
   all of them have been. *)
C28_NoKeySimulationOnly ==
  ~StartsWith(api_key, "sk-or-") \/ Len(api_key) <= 20 =>
    /\ mainPc \in {"start", "simulation", "done"}
    /\ pc = "idle" /\ sent = <<>> /\ inFlight = {} /\ attempts = <<>>
    /\ \A k \in 1..Len(presented) :
         presented[k] = Presented(k - 1, "simulation",
                                  intelligent_simulation(k - 1, test_documents[k]))
    /\ mainPc = "done" => Len(presented) = Len(test_documents)

(* main has finished on a key of exactly 20 characters with the right prefix: all
   four documents were simulated and nothing was sent. *)
C28_Witness ==
  /\ StartsWith(api_key, "sk-or-") /\ Len(api_key) = 20
  /\ mainPc = "done"
  /\ Len(presented) = Len(test_documents)
  /\ presented[4].source = "simulation" /\ presented[4].index = 3
  /\ sent = <<>>

-----------------------------------------------------------------------------
(* The registrations that have ended, by how they ended. *)
Registered == {t \in Tasks : reg.tasks[t].result.tag = "Ok"}

Refused == {t \in Tasks : reg.tasks[t].result.tag = "Err"}

AllRegistrationsDone == mainPc = "register" /\ \A t \in Tasks : reg.tasks[t].pc = "done"

(* C29: however the registrations interleave, the email service never holds more
   emails than its rate limit, one for each registration that succeeded; once the
   five registrations have ended, three have succeeded and two have failed with
   "Rate limit exceeded". *)
C29_RateLimitHolds ==
  mainPc = "register" =>
    /\ Len(reg.sent_emails) <= RateLimit
    /\ Cardinality(Registered) = Len(reg.sent_emails)
    /\ \A t \in Refused : reg.tasks[t].result = Err("Rate limit exceeded")
    /\ AllRegistrationsDone =>
         /\ Cardinality(Registered) = RateLimit
         /\ Cardinality(Refused) = NumTasks - RateLimit

(* All five registrations have ended and main has listed the emails: three were
   sent, and the two tasks spawned first are among the refused. *)
C29_Witness ==
  /\ AllRegistrationsDone
  /\ reg.listed # NoResult
  /\ Len(reg.listed.val.sent_emails) = 3
  /\ Refused = {0, 1}

(* C30: a registration that ended in an error has left no user in the repository,
   and once all registrations have ended the users stored are those who were sent
   a welcome email. *)
C30_RegistrationAtomic ==
  mainPc = "register" =>
    /\ \A t \in Refused : NewUser(t) \notin reg.users
    /\ AllRegistrationsDone =>
         {u.email : u \in reg.users} = {reg.sent_emails[k] : k \in 1..Len(reg.sent_emails)}

====
